---- MODULE Spec2Model ----
(***************************************************************************)
(* Verification model of the Synthea -> OMOP pipeline repository:          *)
(*   etl_script.py  OmopPipeline (schema provisioning, ETL, SQL files,     *)
(*                  Achilles, DQD, run_all)                                *)
(*   server.py      the MCP tool handlers and their background processes   *)
(*   client.py      MCPClient.process_query / chat_loop                    *)
(***************************************************************************)
EXTENDS Integers, Sequences, FiniteSets, TLC

\* ------------------------------------------------------------------ bounds
NumProcs == 2          \* concurrently running pipeline processes
MaxRuns == 2           \* run_all executions in a row by one process

Procs == 1..NumProcs

Range(f) == {f[i] : i \in DOMAIN f}

\* ------------------------------------------------- etl_script.py constants
required_schemas == <<"cdm54", "synthea", "results">>
sql_file_schema == "SQLs/results_schema.sql"
sql_file_counts == "SQLs/concept_counts.sql"
SqlPaths == {sql_file_schema, sql_file_counts}

\* the schemas a database of the model can hold: the required ones and the
\* schema every PostgreSQL database has
SchemaUniverse == Range(required_schemas) \cup {"public"}

\* the six calls of run_all, in source order
Stages == <<"ensure_schemas_exist", "run_etl_process", "run_sql_file_schema",
            "run_achilles", "run_sql_file_counts", "run_dqd_checks">>
NumStages == Len(Stages)

\* the seven ETLSyntheaBuilder calls of the R script, in source order
EtlOps == <<"CreateCDMTables", "LoadVocabFromCsv", "CreateSyntheaTables",
            "LoadSyntheaTables", "CreateMapAndRollupTables",
            "CreateExtraIndices", "LoadEventTables">>

\* --------------------------------------------------------- error messages
\* A message is a sequence of words; <<>> stands for "no error".
NoError == <<>>
MsgAlreadyExists == <<"relation", "person", "already", "exists">>
MsgDuplicateKey == <<"ERROR", "Duplicate", "Key", "value">>
MsgConnRefused == <<"connection", "refused">>
MsgNearMiss == <<"already", "dropped", "exists">>
Messages == {MsgAlreadyExists, MsgDuplicateKey, MsgConnRefused, MsgNearMiss}
Outcomes == {NoError} \cup Messages

MsgSchemaExists(s) == <<"schema", s, "already", "exists">>

Lower(w) ==
    CASE w = "ERROR" -> "error"
      [] w = "Duplicate" -> "duplicate"
      [] w = "Key" -> "key"
      [] OTHER -> w

LowerSeq(m) == [i \in DOMAIN m |-> Lower(m[i])]

\* pat occurs in m as a contiguous run of words
Contains(m, pat) ==
    \E i \in 1..(Len(m) - Len(pat) + 1) : SubSeq(m, i, i + Len(pat) - 1) = pat

\* grepl("a|b", msg, ignore.case=TRUE) with the alternatives given as a set
Grepl(alts, msg) == \E a \in alts : Contains(LowerSeq(msg), LowerSeq(a))

PatAlreadyExists == <<"already", "exists">>
PatDuplicateKey == <<"duplicate", "key">>

\* the allow-list the specification names
AllowList == {PatAlreadyExists, PatDuplicateKey}

\* the pattern of the tryCatch around the i-th ETL call; the first four calls
\* have no tryCatch, so no message is caught there
TryCatchPattern(i) ==
    CASE i = 5 -> {PatAlreadyExists, PatDuplicateKey}
      [] i = 6 -> {PatAlreadyExists}
      [] i = 7 -> {PatAlreadyExists, PatDuplicateKey}
      [] OTHER -> {}

\* ------------------------------------------------------------- SQL scripts
\* A script is a sequence of characters.
Whitespace == {" ", "\n"}
Missing == <<"ENOENT">>
Scripts == { <<"a", ";", "\n", "b", ";">>,
             <<" ", "a", ";", " ", ";", "b">>,
             <<"\n">> }

RECURSIVE Split(_, _)
\* str.split(sep)
Split(s, sep) ==
    IF \A i \in DOMAIN s : s[i] # sep
    THEN <<s>>
    ELSE LET k == CHOOSE i \in DOMAIN s :
                      s[i] = sep /\ \A j \in 1..(i - 1) : s[j] # sep
         IN  <<SubSeq(s, 1, k - 1)>> \o Split(SubSeq(s, k + 1, Len(s)), sep)

RECURSIVE LStrip(_)
LStrip(s) == IF s # <<>> /\ Head(s) \in Whitespace THEN LStrip(Tail(s)) ELSE s

RECURSIVE RStrip(_)
RStrip(s) ==
    IF s # <<>> /\ s[Len(s)] \in Whitespace
    THEN RStrip(SubSeq(s, 1, Len(s) - 1))
    ELSE s

\* str.strip()
Strip(s) == RStrip(LStrip(s))

\* statements = sql_script.strip().split(';')
Statements(script) == Split(Strip(script), ";")

\* ---------------------------------------------------------------- state
VARIABLES
    \* the database
    schemas,      \* committed schemas
    txCreated,    \* per process: schemas created in its open transaction
    txStmts,      \* per process: statements executed in its open transaction
    dbLog,        \* committed SQL file runs, in commit order
    files,        \* path -> script, or Missing
    \* a pipeline process
    entry,        \* the function the process runs
    pc,           \* its position
    idx,          \* loop index of the current function
    stage,        \* index in Stages of the stage being run
    status,       \* per process and stage: Pending .. Failed
    skipped,      \* per process: a tryCatch of the current ETL run skipped
    run,          \* per process: number of the current run
    \* history
    started,      \* per process: stages started in the current run, in order
    issued,       \* per process: operations issued in the current stage
    benignOnly,   \* per process: every failure of this run matched the allow-list
    createLog,    \* per process: schemas it issued CREATE SCHEMA for
    preSchemas,   \* per process: schemas that existed when its run began
    overlap,      \* per process: another run was active during its run
    dupLost,      \* per process: its CREATE SCHEMA lost a duplicate race
    lastFail,     \* per process: message of the last failure of its ETL stage
    \* the tool server (server.py)
    serverAlive,  \* the server process is running
    busy,         \* the call whose handler the server is inside, or 0
    tool,         \* per call: the tool called, "none" before the call
    arg,          \* per call: its filepath argument
    reply,        \* per call: the text returned to the caller, <<>> before
    host,         \* per call: the process its work runs in
    work,         \* per call: progress of its work
    outcome,      \* per call: how its work ended
    spawned,      \* per call: the target of the Process it started
    \* the client (client.py)
    cpc,          \* position of chat_loop / process_query
    lastInput,    \* the line input() returned last
    tool_descs,   \* the function declarations built from the catalog
    catalog,      \* tool names of the list_tools answer of this query
    response,     \* the model's response: a sequence of candidates
    usage,        \* usage_metadata of the response
    ci,           \* index of the candidate being processed
    pi,           \* index of the part being processed
    final_parts,  \* the text fragments collected so far
    inflight,     \* the call_tool awaiting its result, or <<>>
    callLog,      \* call_tool requests issued in this query, in order
    modelCalls,   \* generate_content requests made in this query
    result,       \* what process_query returned, or how it ended
    transcript    \* what the client printed, in order

dbVars == <<schemas, txCreated, txStmts, dbLog, files>>
procVars == <<entry, pc, idx, stage, status, skipped, run>>
histVars == <<started, issued, benignOnly, createLog, preSchemas, overlap, dupLost,
              lastFail>>
pipeVars == <<dbVars, procVars, histVars>>

serverVars == <<serverAlive, busy, tool, arg, reply, host, work, outcome, spawned>>
clientVars == <<cpc, lastInput, tool_descs, catalog, response, usage, ci, pi, final_parts,
                inflight, callLog, modelCalls, result, transcript>>

vars == <<pipeVars, serverVars, clientVars>>

\* Pending -> Running -> one of the three terminal statuses
Terminal == {"Completed", "CompletedWithSkips", "Failed"}

Active(p) == pc[p] \notin {"idle", "ready", "done", "raised"}

Benign(msg) == Grepl(AllowList, msg)

\* ------------------------------------------------------------ run_all
\* first position of each stage's function
FirstPc(s) ==
    CASE s = 1 -> "es_connect"
      [] s = 2 -> "etl_op"
      [] s = 3 -> "sql_open"
      [] s = 4 -> "ach_op"
      [] s = 5 -> "sql_open"
      [] s = 6 -> "dqd_exec"

\* the function of the current stage returns normally with outcome st
\* a stage function that starts over when it failed
StageReturnRetry(p, st) ==
    /\ status' = [status EXCEPT ![p][stage[p]] = st]
    /\ pc' = [pc EXCEPT ![p] = IF st = "Failed" THEN FirstPc(stage[p])
                               ELSE IF entry[p] = "run_all" THEN "next" ELSE "done"]

StageReturn(p, st) ==
    /\ status' = [status EXCEPT ![p][stage[p]] = st]
    /\ pc' = [pc EXCEPT ![p] = IF entry[p] = "run_all" THEN "next" ELSE "done"]

\* the function of the current stage raises: run_all has no handler
StageRaise(p) ==
    /\ status' = [status EXCEPT ![p][stage[p]] = "Failed"]
    /\ pc' = [pc EXCEPT ![p] = "raised"]

NoteFailure(p, msg) ==
    /\ benignOnly' = [benignOnly EXCEPT ![p] = benignOnly[p] /\ Benign(msg)]
    /\ lastFail' = [lastFail EXCEPT ![p] = IF stage[p] = 2 THEN msg ELSE lastFail[p]]

\* a process starts running its entry function
Invoke(p) ==
    /\ UNCHANGED <<serverVars, clientVars>>
    /\ pc[p] = "ready"
    /\ IF entry[p] = "run_all"
       THEN /\ pc' = [pc EXCEPT ![p] = "next"]
            /\ stage' = [stage EXCEPT ![p] = 0]
            /\ UNCHANGED <<status, started>>
       ELSE /\ pc' = [pc EXCEPT ![p] = FirstPc(1)]
            /\ stage' = [stage EXCEPT ![p] = 1]
            /\ status' = [status EXCEPT ![p][1] = "Running"]
            /\ started' = [started EXCEPT ![p] = <<1>>]
    /\ preSchemas' = [preSchemas EXCEPT ![p] = schemas]
    /\ overlap' = [q \in Procs |->
                     IF q = p THEN \E r \in Procs \ {p} : Active(r)
                     ELSE overlap[q] \/ Active(q)]
    /\ UNCHANGED <<dbVars, entry, idx, skipped, run>>
    /\ UNCHANGED <<issued, benignOnly, lastFail, createLog, dupLost>>

\* a run_all that calls the stats pass before the results-schema SQL
NextStageSwapped(s) ==
    CASE s = 2 -> 4
      [] s = 4 -> 3
      [] s = 3 -> 5
      [] OTHER -> s + 1

\* the call that follows call s in the body of run_all (0: none made yet)
NextStage(s) == s + 1

\* run_all: the next of its six calls, in source order
RunAllStart(p) ==
    /\ UNCHANGED <<serverVars, clientVars>>
    /\ pc[p] = "next"
    /\ stage[p] < NumStages
    /\ stage' = [stage EXCEPT ![p] = NextStage(stage[p])]
    /\ pc' = [pc EXCEPT ![p] = FirstPc(NextStage(stage[p]))]
    /\ idx' = [idx EXCEPT ![p] = 1]
    /\ skipped' = [skipped EXCEPT ![p] = FALSE]
    /\ status' = [status EXCEPT ![p][NextStage(stage[p])] = "Running"]
    /\ started' = [started EXCEPT ![p] = Append(started[p], NextStage(stage[p]))]
    /\ issued' = [issued EXCEPT ![p] = <<>>]
    /\ lastFail' = [lastFail EXCEPT ![p] = NoError]
    /\ UNCHANGED <<dbVars, entry, run>>
    /\ UNCHANGED <<benignOnly, createLog, preSchemas, overlap, dupLost>>

RunAllReturn(p) ==
    /\ UNCHANGED <<serverVars, clientVars>>
    /\ pc[p] = "next"
    /\ stage[p] = NumStages
    /\ pc' = [pc EXCEPT ![p] = "done"]
    /\ UNCHANGED <<dbVars, entry, idx, stage, status, skipped, run, histVars>>

\* main() is run again after the previous run ended
Rerun(p) ==
    /\ UNCHANGED <<serverVars, clientVars>>
    /\ entry[p] = "run_all"
    /\ pc[p] \in {"done", "raised"}
    /\ run[p] < MaxRuns
    /\ run' = [run EXCEPT ![p] = run[p] + 1]
    /\ pc' = [pc EXCEPT ![p] = "next"]
    /\ stage' = [stage EXCEPT ![p] = 0]
    /\ idx' = [idx EXCEPT ![p] = 1]
    /\ skipped' = [skipped EXCEPT ![p] = FALSE]
    /\ status' = [status EXCEPT ![p] = [s \in 1..NumStages |-> "Pending"]]
    /\ started' = [started EXCEPT ![p] = <<>>]
    /\ issued' = [issued EXCEPT ![p] = <<>>]
    /\ benignOnly' = [benignOnly EXCEPT ![p] = TRUE]
    /\ lastFail' = [lastFail EXCEPT ![p] = NoError]
    /\ createLog' = [createLog EXCEPT ![p] = {}]
    /\ dupLost' = [dupLost EXCEPT ![p] = FALSE]
    /\ preSchemas' = [preSchemas EXCEPT ![p] = schemas]
    /\ UNCHANGED <<dbVars, entry, overlap>>

\* --------------------------------------------------- ensure_schemas_exist
\* an ensure_schemas_exist whose except re-raises
EsErrorRaises(p, msg) ==
    /\ txCreated' = [txCreated EXCEPT ![p] = {}]
    /\ NoteFailure(p, msg)
    /\ StageRaise(p)

\* the except branch: the error is printed and the function returns; the
\* connection is a local that is dropped unclosed, which rolls its open
\* transaction back
EsError(p, msg) ==
    /\ txCreated' = [txCreated EXCEPT ![p] = {}]
    /\ NoteFailure(p, msg)
    /\ StageReturn(p, "Failed")

\* psycopg2.connect
EsConnect(p) ==
    /\ UNCHANGED <<serverVars, clientVars>>
    /\ pc[p] = "es_connect"
    /\ \E out \in {NoError, MsgConnRefused} :
         IF out = NoError
         THEN /\ pc' = [pc EXCEPT ![p] =
                         IF Len(required_schemas) = 0 THEN "es_commit" ELSE "es_select"]
              /\ idx' = [idx EXCEPT ![p] = 1]
              /\ issued' = [issued EXCEPT ![p] = Append(issued[p], <<"CONNECT">>)]
              /\ UNCHANGED <<txCreated, status, benignOnly, lastFail>>
         ELSE /\ EsError(p, out)
              /\ issued' = [issued EXCEPT ![p] = Append(issued[p], <<"CONNECT">>)]
              /\ UNCHANGED idx
    /\ UNCHANGED <<schemas, txStmts, dbLog, files, entry, stage, skipped, run>>
    /\ UNCHANGED <<started, createLog, preSchemas, overlap, dupLost>>

\* a fetchone() that answers the wrong way round
SchemaFoundInverted(p, s) == s \notin (schemas \cup txCreated[p])

\* cursor.fetchone() of the SELECT on information_schema.schemata: the
\* committed schemas and those of the process's own transaction are visible
SchemaFound(p, s) == s \in (schemas \cup txCreated[p])

AfterSchema(p) ==
    IF idx[p] = Len(required_schemas)
    THEN /\ pc' = [pc EXCEPT ![p] = "es_commit"]
         /\ UNCHANGED idx
    ELSE /\ pc' = [pc EXCEPT ![p] = "es_select"]
         /\ idx' = [idx EXCEPT ![p] = idx[p] + 1]

\* the SELECT of one loop iteration and the test of its result
EsSelect(p) ==
    /\ UNCHANGED <<serverVars, clientVars>>
    /\ pc[p] = "es_select"
    /\ LET s == required_schemas[idx[p]] IN
       /\ issued' = [issued EXCEPT ![p] = Append(issued[p], <<"SELECT", s>>)]
       /\ \E out \in {NoError, MsgConnRefused} :
            IF out # NoError
            THEN EsError(p, out) /\ UNCHANGED idx
            ELSE /\ IF SchemaFound(p, s)
                    THEN AfterSchema(p)
                    ELSE /\ pc' = [pc EXCEPT ![p] = "es_create"]
                         /\ UNCHANGED idx
                 /\ UNCHANGED <<txCreated, status, benignOnly, lastFail>>
    /\ UNCHANGED <<schemas, txStmts, dbLog, files, entry, stage, skipped, run>>
    /\ UNCHANGED <<started, createLog, preSchemas, overlap, dupLost>>

\* CREATE SCHEMA of one loop iteration.  PostgreSQL makes a CREATE SCHEMA
\* wait while another open transaction has created the same name, and
\* fails it once that name is committed.
EsCreate(p) ==
    /\ UNCHANGED <<serverVars, clientVars>>
    /\ pc[p] = "es_create"
    /\ LET s == required_schemas[idx[p]] IN
       /\ \A q \in Procs \ {p} : s \notin txCreated[q]
       /\ issued' = [issued EXCEPT ![p] = Append(issued[p], <<"CREATE", s>>)]
       /\ createLog' = [createLog EXCEPT ![p] = createLog[p] \cup {s}]
       /\ IF s \in schemas
          THEN /\ EsError(p, MsgSchemaExists(s))
               /\ dupLost' = [dupLost EXCEPT ![p] = TRUE]
               /\ UNCHANGED idx
          ELSE /\ \E out \in {NoError, MsgConnRefused} :
                    IF out # NoError
                    THEN EsError(p, out) /\ UNCHANGED idx
                    ELSE /\ txCreated' = [txCreated EXCEPT ![p] = txCreated[p] \cup {s}]
                         /\ AfterSchema(p)
                         /\ UNCHANGED <<status, benignOnly, lastFail>>
               /\ UNCHANGED dupLost
    /\ UNCHANGED <<schemas, txStmts, dbLog, files, entry, stage, skipped, run>>
    /\ UNCHANGED <<started, preSchemas, overlap>>

\* a run that closes its connection without conn.commit()
EsCommitForgotten(p) ==
    /\ UNCHANGED <<serverVars, clientVars>>
    /\ pc[p] = "es_commit"
    /\ txCreated' = [txCreated EXCEPT ![p] = {}]
    /\ StageReturn(p, "Completed")
    /\ UNCHANGED <<schemas, txStmts, dbLog, files, entry, idx, stage, skipped, run>>
    /\ UNCHANGED histVars

\* conn.commit(); cursor.close(); conn.close()
EsCommit(p) ==
    /\ UNCHANGED <<serverVars, clientVars>>
    /\ pc[p] = "es_commit"
    /\ schemas' = schemas \cup txCreated[p]
    /\ txCreated' = [txCreated EXCEPT ![p] = {}]
    /\ issued' = [issued EXCEPT ![p] = Append(issued[p], <<"COMMIT">>)]
    /\ StageReturn(p, "Completed")
    /\ UNCHANGED <<txStmts, dbLog, files, entry, idx, stage, skipped, run>>
    /\ UNCHANGED <<started, benignOnly, lastFail, createLog, preSchemas, overlap, dupLost>>

\* --------------------------------------------------------- run_etl_process
\* One ETLSyntheaBuilder call of the R script.  An error outside a tryCatch,
\* or one its handler re-raises with stop(e), ends the script; run_r_script
\* re-raises it and the except of run_etl_process logs it.
EtlOp(p) ==
    /\ UNCHANGED <<serverVars, clientVars>>
    /\ pc[p] = "etl_op"
    /\ issued' = [issued EXCEPT ![p] = Append(issued[p], <<"R", EtlOps[idx[p]]>>)]
    /\ \E out \in Outcomes :
         LET caught == out # NoError /\ Grepl(TryCatchPattern(idx[p]), out)
             skips == skipped[p] \/ caught
         IN  /\ IF out = NoError THEN UNCHANGED <<benignOnly, lastFail>> ELSE NoteFailure(p, out)
             /\ IF out # NoError /\ ~caught
                THEN /\ StageReturn(p, "Failed")
                     /\ UNCHANGED <<idx, skipped>>
                ELSE /\ skipped' = [skipped EXCEPT ![p] = skips]
                     /\ IF idx[p] = Len(EtlOps)
                        THEN /\ StageReturn(p, IF skips THEN "CompletedWithSkips"
                                                        ELSE "Completed")
                             /\ UNCHANGED idx
                        ELSE /\ idx' = [idx EXCEPT ![p] = idx[p] + 1]
                             /\ UNCHANGED <<pc, status>>
    /\ UNCHANGED <<dbVars, entry, stage, run>>
    /\ UNCHANGED <<started, createLog, preSchemas, overlap, dupLost>>

\* ------------------------------------------------------------ run_sql_file
SqlPath(p) == IF stage[p] = 3 THEN sql_file_schema ELSE sql_file_counts

\* the except branch: the error is printed and the function returns; the
\* unclosed connection is dropped, which rolls its transaction back
SqlError(p, msg) ==
    /\ txStmts' = [txStmts EXCEPT ![p] = <<>>]
    /\ NoteFailure(p, msg)
    /\ StageReturn(p, "Failed")

\* open(filepath).read()
SqlOpen(p) ==
    /\ UNCHANGED <<serverVars, clientVars>>
    /\ pc[p] = "sql_open"
    /\ IF files[SqlPath(p)] = Missing
       THEN SqlError(p, Missing)
       ELSE /\ pc' = [pc EXCEPT ![p] = "sql_connect"]
            /\ UNCHANGED <<txStmts, status, benignOnly, lastFail>>
    /\ UNCHANGED <<schemas, txCreated, dbLog, files, entry, idx, stage, skipped, run>>
    /\ UNCHANGED <<started, issued, createLog, preSchemas, overlap, dupLost>>

\* psycopg2.connect, then the split of the script
SqlConnect(p) ==
    /\ UNCHANGED <<serverVars, clientVars>>
    /\ pc[p] = "sql_connect"
    /\ issued' = [issued EXCEPT ![p] = Append(issued[p], <<"CONNECT">>)]
    /\ \E out \in {NoError, MsgConnRefused} :
         IF out # NoError
         THEN SqlError(p, out) /\ UNCHANGED idx
         ELSE /\ pc' = [pc EXCEPT ![p] = "sql_exec"]
              /\ idx' = [idx EXCEPT ![p] = 1]
              /\ UNCHANGED <<txStmts, status, benignOnly, lastFail>>
    /\ UNCHANGED <<schemas, txCreated, dbLog, files, entry, stage, skipped, run>>
    /\ UNCHANGED <<started, createLog, preSchemas, overlap, dupLost>>

\* a loop that sends the empty pieces of the split to the database too
IsStatementAlways(stmt) == TRUE

\* if stmt:
IsStatement(stmt) == stmt # <<>>

\* one iteration of the loop over the statements
SqlExec(p) ==
    /\ UNCHANGED <<serverVars, clientVars>>
    /\ pc[p] = "sql_exec"
    /\ LET stmts == Statements(files[SqlPath(p)])
           stmt == Strip(stmts[idx[p]])
           after == IF idx[p] = Len(stmts) THEN "sql_commit" ELSE "sql_exec"
       IN  IF ~IsStatement(stmt)
           THEN /\ pc' = [pc EXCEPT ![p] = after]
                /\ idx' = [idx EXCEPT ![p] = idx[p] + 1]
                /\ UNCHANGED <<txStmts, status, benignOnly, lastFail, issued>>
           ELSE /\ issued' = [issued EXCEPT ![p] =
                                 Append(issued[p], <<"SQL">> \o stmt \o <<";">>)]
                /\ \E out \in {NoError, MsgAlreadyExists, MsgConnRefused} :
                     IF out # NoError
                     THEN SqlError(p, out) /\ UNCHANGED idx
                     ELSE /\ txStmts' = [txStmts EXCEPT ![p] =
                                           Append(txStmts[p], stmt \o <<";">>)]
                          /\ pc' = [pc EXCEPT ![p] = after]
                          /\ idx' = [idx EXCEPT ![p] = idx[p] + 1]
                          /\ UNCHANGED <<status, benignOnly, lastFail>>
    /\ UNCHANGED <<schemas, txCreated, dbLog, files, entry, stage, skipped, run>>
    /\ UNCHANGED <<started, createLog, preSchemas, overlap, dupLost>>

\* conn.commit(); cursor.close(); conn.close()
SqlCommit(p) ==
    /\ UNCHANGED <<serverVars, clientVars>>
    /\ pc[p] = "sql_commit"
    /\ dbLog' = Append(dbLog, [path |-> SqlPath(p), stmts |-> txStmts[p]])
    /\ txStmts' = [txStmts EXCEPT ![p] = <<>>]
    /\ issued' = [issued EXCEPT ![p] = Append(issued[p], <<"COMMIT">>)]
    /\ StageReturn(p, "Completed")
    /\ UNCHANGED <<schemas, txCreated, files, entry, idx, stage, skipped, run>>
    /\ UNCHANGED <<started, benignOnly, lastFail, createLog, preSchemas, overlap, dupLost>>

\* ------------------------------------------------------------ run_achilles
\* run_achilles calls run_r_script outside any try: the exception of a
\* failed script leaves run_achilles and its caller
AchillesFails(p) == StageRaise(p)

AchOp(p) ==
    /\ UNCHANGED <<serverVars, clientVars>>
    /\ pc[p] = "ach_op"
    /\ issued' = [issued EXCEPT ![p] = Append(issued[p], <<"R", "achilles">>)]
    /\ \E out \in Outcomes :
         IF out = NoError
         THEN StageReturn(p, "Completed") /\ UNCHANGED <<benignOnly, lastFail>>
         ELSE AchillesFails(p) /\ NoteFailure(p, out)
    /\ UNCHANGED <<dbVars, entry, idx, stage, skipped, run>>
    /\ UNCHANGED <<started, createLog, preSchemas, overlap, dupLost>>

\* ---------------------------------------------------------- run_dqd_checks
MsgNoFile == <<"file.json", "was", "not", "created.">>

\* executeDqChecks, then the file.exists test of the script
DqdExec(p) ==
    /\ UNCHANGED <<serverVars, clientVars>>
    /\ pc[p] = "dqd_exec"
    /\ issued' = [issued EXCEPT ![p] = Append(issued[p], <<"R", "executeDqChecks">>)]
    /\ \E out \in Outcomes, fileExists \in BOOLEAN :
         IF out # NoError
         THEN StageReturn(p, "Failed") /\ NoteFailure(p, out)
         ELSE IF ~fileExists
              THEN StageReturn(p, "Failed") /\ NoteFailure(p, MsgNoFile)
              ELSE /\ pc' = [pc EXCEPT ![p] = "dqd_view"]
                   /\ UNCHANGED <<status, benignOnly, lastFail>>
    /\ UNCHANGED <<dbVars, entry, idx, stage, skipped, run>>
    /\ UNCHANGED <<started, createLog, preSchemas, overlap, dupLost>>

\* viewDqDashboard, the last call of the script
DqdView(p) ==
    /\ UNCHANGED <<serverVars, clientVars>>
    /\ pc[p] = "dqd_view"
    /\ issued' = [issued EXCEPT ![p] = Append(issued[p], <<"R", "viewDqDashboard">>)]
    /\ \E out \in Outcomes :
         IF out # NoError
         THEN StageReturn(p, "Failed") /\ NoteFailure(p, out)
         ELSE StageReturn(p, "Completed") /\ UNCHANGED <<benignOnly, lastFail>>
    /\ UNCHANGED <<dbVars, entry, idx, stage, skipped, run>>
    /\ UNCHANGED <<started, createLog, preSchemas, overlap, dupLost>>

\* ------------------------------------------------------------- server.py
MaxCalls == 2          \* tool calls the server receives

Calls == 1..MaxCalls

BackgroundTools == {"run_etl", "run_sql", "run_achilles", "run_dqd_checks", "run_all"}
PipelineTools == BackgroundTools \cup {"ensure_schemas"}

NoReply == <<>>

\* the pipeline method a tool is about
Target(tl) ==
    CASE tl = "ensure_schemas" -> "ensure_schemas_exist"
      [] tl = "run_etl" -> "run_etl_process"
      [] tl = "run_sql" -> "run_sql_file"
      [] tl = "run_achilles" -> "run_achilles"
      [] tl = "run_dqd_checks" -> "run_dqd_checks"
      [] tl = "run_all" -> "run_all"

\* The handler itself calls the pipeline method before it goes on:
\* ensure_schemas by design, and run_sql because its Process is given
\* target=pipeline.run_sql_file(filepath), the result of a call.
RunsInline(tl) == tl \in {"ensure_schemas", "run_sql"}

\* the target the handler gives to multiprocessing.Process ("": no Process)
ProcessTarget(tl) ==
    CASE tl = "ensure_schemas" -> ""
      [] tl = "run_sql" -> "None"
      [] OTHER -> Target(tl)

\* the text of the return in the try branch
AckText(tl, path) ==
    CASE tl = "ensure_schemas" -> <<"Schemas ensured successfully.">>
      [] tl = "run_etl" -> <<"ETL process started in the background...">>
      [] tl = "run_sql" -> <<"SQL file '", path, "' executed successfully.">>
      [] tl = "run_achilles" -> <<"Achilles analysis started in background.">>
      [] tl = "run_dqd_checks" -> <<"DQD checks started in the background.">>
      [] tl = "run_all" -> <<"Full pipeline execution started in background.">>

\* the text of the return in the except branch
ErrText(tl, path, msg) ==
    CASE tl = "ensure_schemas" -> <<"Error ensuring schemas: ">> \o msg
      [] tl = "run_etl" -> <<"Error running ETL process: ">> \o msg
      [] tl = "run_sql" -> <<"Error executing SQL file '", path, "': ">> \o msg
      [] tl = "run_achilles" -> <<"Error running Achilles: ">> \o msg
      [] tl = "run_dqd_checks" -> <<"Error running DQD checks: ">> \o msg
      [] tl = "run_all" -> <<"Error running full pipeline: ">> \o msg

\* try: ... return ack / except Exception as e: return error
HandlerReply(tl, path, exc) ==
    IF exc = NoError THEN AckText(tl, path) ELSE ErrText(tl, path, exc)

\* how the work of a pipeline method can end
PossibleOutcomes(target) ==
    CASE target \in {"run_etl_process", "run_all"} -> {"success", "skipped", "failed"}
      [] OTHER -> {"success", "failed"}

\* a pipeline whose methods let every failure out to the caller
PropagatesUnswallowed(target, out, exc) == exc = (out = "failed")

\* Whether the method leaves by an exception (exc) when its work ends as
\* out.  ensure_schemas_exist, run_sql_file, run_etl_process and
\* run_dqd_checks catch Exception and return; run_achilles has no handler;
\* run_all raises exactly when its run_achilles call does.
Propagates(target, out, exc) ==
    CASE target = "run_achilles" -> exc = (out = "failed")
      [] target = "run_all" -> exc => (out = "failed")
      [] OTHER -> exc = FALSE

MsgOsError == <<"OSError">>
StartFailed == "start failed"     \* Process() or start() raised
MsgWorkError == <<"Exception">>

HostAlive(c) == host[c] = "worker" \/ (host[c] = "server" /\ serverAlive)

\* A tool call arrives and its handler runs up to its first blocking call.
\* The server runs one handler at a time.  A handler that only starts a
\* Process returns at once; start() failing is the only way into its except.
ToolCall(c) ==
    /\ UNCHANGED <<pipeVars, clientVars>>
    /\ serverAlive /\ busy = 0
    /\ tool[c] = "none"
    /\ IF c = 1 THEN TRUE ELSE tool[c - 1] # "none"
    /\ \E tl \in PipelineTools :
         \E path \in (IF tl = "run_sql" THEN SqlPaths ELSE {""}) :
            /\ tool' = [tool EXCEPT ![c] = tl]
            /\ arg' = [arg EXCEPT ![c] = path]
            /\ IF RunsInline(tl)
               THEN /\ busy' = c
                    /\ host' = [host EXCEPT ![c] = "server"]
                    /\ work' = [work EXCEPT ![c] = "running"]
                    /\ UNCHANGED <<reply, spawned>>
               ELSE /\ \E exc \in {NoError, MsgOsError} :
                         /\ reply' = [reply EXCEPT ![c] = HandlerReply(tl, path, exc)]
                         /\ IF exc = NoError
                            THEN /\ spawned' = [spawned EXCEPT ![c] = ProcessTarget(tl)]
                                 /\ host' = [host EXCEPT ![c] = "worker"]
                                 /\ work' = [work EXCEPT ![c] = "running"]
                            ELSE /\ spawned' = [spawned EXCEPT ![c] = StartFailed]
                                 /\ UNCHANGED <<host, work>>
                    /\ UNCHANGED busy
    /\ UNCHANGED <<serverAlive, outcome>>

\* the work of a call makes its side effect observable (a commit, a file)
WorkEffect(c) ==
    /\ UNCHANGED <<pipeVars, clientVars>>
    /\ work[c] = "running" /\ HostAlive(c)
    /\ work' = [work EXCEPT ![c] = "effect"]
    /\ UNCHANGED <<serverAlive, busy, tool, arg, reply, host, outcome, spawned>>

\* the target of a worker process returns or raises; the process exits and
\* nothing is sent to the server
WorkerFinish(c) ==
    /\ UNCHANGED <<pipeVars, clientVars>>
    /\ host[c] = "worker" /\ work[c] \in {"running", "effect"}
    /\ \E out \in PossibleOutcomes(Target(tool[c])), exc \in BOOLEAN :
         /\ Propagates(Target(tool[c]), out, exc)
         /\ outcome' = [outcome EXCEPT ![c] = out]
    /\ work' = [work EXCEPT ![c] = "finished"]
    /\ UNCHANGED <<serverAlive, busy, tool, arg, reply, host, spawned>>

\* the pipeline method called inside the handler ends, and the handler runs
\* to its return: run_sql then starts a Process with target None
InlineFinish(c) ==
    /\ UNCHANGED <<pipeVars, clientVars>>
    /\ host[c] = "server" /\ serverAlive /\ busy = c
    /\ work[c] \in {"running", "effect"}
    /\ \E out \in PossibleOutcomes(Target(tool[c])), exc \in BOOLEAN :
         /\ Propagates(Target(tool[c]), out, exc)
         /\ outcome' = [outcome EXCEPT ![c] = out]
         /\ IF exc
            THEN /\ reply' = [reply EXCEPT ![c] =
                                HandlerReply(tool[c], arg[c], MsgWorkError)]
                 /\ UNCHANGED spawned
            ELSE IF ProcessTarget(tool[c]) = ""
                 THEN /\ reply' = [reply EXCEPT ![c] =
                                     HandlerReply(tool[c], arg[c], NoError)]
                      /\ UNCHANGED spawned
                 ELSE \E err \in {NoError, MsgOsError} :
                         /\ reply' = [reply EXCEPT ![c] =
                                        HandlerReply(tool[c], arg[c], err)]
                         /\ spawned' = [spawned EXCEPT ![c] =
                                          IF err = NoError
                                          THEN ProcessTarget(tool[c])
                                          ELSE StartFailed]
    /\ work' = [work EXCEPT ![c] = "finished"]
    /\ busy' = 0
    /\ UNCHANGED <<serverAlive, tool, arg, host>>

\* the work crashes the process it runs in, here a worker
WorkerCrash(c) ==
    /\ UNCHANGED <<pipeVars, clientVars>>
    /\ host[c] = "worker" /\ work[c] \in {"running", "effect"}
    /\ work' = [work EXCEPT ![c] = "crashed"]
    /\ UNCHANGED <<serverAlive, busy, tool, arg, reply, host, outcome, spawned>>

\* the work crashes the process it runs in, here the server: the call gets
\* no reply and no later call is served; started workers run on
ServerCrash(c) ==
    /\ UNCHANGED <<pipeVars, clientVars>>
    /\ host[c] = "server" /\ serverAlive /\ busy = c
    /\ work[c] \in {"running", "effect"}
    /\ work' = [work EXCEPT ![c] = "crashed"]
    /\ serverAlive' = FALSE
    /\ UNCHANGED <<busy, tool, arg, reply, host, outcome, spawned>>

\* The ensure_schemas handler in full: the server's own pipeline object,
\* process 1, runs ensure_schemas_exist inside the handler's try
EnsureToolCall(c) ==
    /\ UNCHANGED clientVars
    /\ serverAlive /\ busy = 0
    /\ tool[c] = "none"
    /\ IF c = 1 THEN TRUE ELSE tool[c - 1] # "none"
    /\ pc[1] \in {"ready", "done"}
    /\ tool' = [tool EXCEPT ![c] = "ensure_schemas"]
    /\ busy' = c
    /\ host' = [host EXCEPT ![c] = "server"]
    /\ work' = [work EXCEPT ![c] = "running"]
    /\ UNCHANGED <<serverAlive, arg, reply, outcome, spawned>>
    /\ pc' = [pc EXCEPT ![1] = FirstPc(1)]
    /\ stage' = [stage EXCEPT ![1] = 1]
    /\ idx' = [idx EXCEPT ![1] = 1]
    /\ status' = [status EXCEPT ![1] = [s \in 1..NumStages |->
                                          IF s = 1 THEN "Running" ELSE "Pending"]]
    /\ started' = [started EXCEPT ![1] = <<1>>]
    /\ issued' = [issued EXCEPT ![1] = <<>>]
    /\ benignOnly' = [benignOnly EXCEPT ![1] = TRUE]
    /\ lastFail' = [lastFail EXCEPT ![1] = NoError]
    /\ createLog' = [createLog EXCEPT ![1] = {}]
    /\ dupLost' = [dupLost EXCEPT ![1] = FALSE]
    /\ preSchemas' = [preSchemas EXCEPT ![1] = schemas]
    /\ overlap' = [q \in Procs |->
                     IF q = 1 THEN \E r \in Procs \ {1} : Active(r)
                     ELSE overlap[q] \/ Active(q)]
    /\ UNCHANGED <<dbVars, entry, skipped, run>>

\* ensure_schemas_exist came back to the handler, which returns its text:
\* the try branch when the call returned, the except branch when it raised
EnsureToolReturn(c) ==
    /\ UNCHANGED <<pipeVars, clientVars>>
    /\ serverAlive /\ busy = c
    /\ tool[c] = "ensure_schemas"
    /\ pc[1] \in {"done", "raised"}
    /\ reply' = [reply EXCEPT ![c] =
                    HandlerReply(tool[c], arg[c],
                                 IF pc[1] = "raised" THEN MsgWorkError ELSE NoError)]
    /\ outcome' = [outcome EXCEPT ![c] =
                      IF status[1][1] = "Failed" THEN "failed" ELSE "success"]
    /\ work' = [work EXCEPT ![c] = "finished"]
    /\ busy' = 0
    /\ UNCHANGED <<serverAlive, tool, arg, host, spawned>>

ServerInit ==
    /\ serverAlive = TRUE
    /\ busy = 0
    /\ tool = [c \in Calls |-> "none"]
    /\ arg = [c \in Calls |-> ""]
    /\ reply = [c \in Calls |-> NoReply]
    /\ host = [c \in Calls |-> "none"]
    /\ work = [c \in Calls |-> "none"]
    /\ outcome = [c \in Calls |-> "none"]
    /\ spawned = [c \in Calls |-> ""]

\* ------------------------------------------------------------- client.py
MaxCands == 2          \* candidates of one model response
MaxParts == 2          \* content parts of one model response, all candidates
MaxTokens == 1         \* largest token count of a usage record

\* dict.get(key, default)
Get(d, key, default) == IF key \in DOMAIN d THEN d[key] ELSE default

\* the empty dict {}
EmptyDict == [k \in {} |-> k]

\* tool descriptors the gateway's list_tools can answer with; a schema holds
\* only the keys the gateway sent
D_run_sql ==
    [name |-> "run_sql",
     description |-> "Execute a SQL file against the OMOP database",
     inputSchema |-> [type |-> "object",
                      properties |-> [filepath |-> [type |-> "string",
                                                    title |-> "Filepath"]],
                      required |-> <<"filepath">>]]
D_run_all ==
    [name |-> "run_all",
     description |-> "Run full OMOP ETL pipeline end-to-end",
     inputSchema |-> [type |-> "object", properties |-> EmptyDict]]
D_plot_query ==
    [name |-> "plot_query",
     description |-> "Run a SQL query and save a chart.",
     inputSchema |-> [properties |-> [sql |-> [type |-> "string",
                                               description |-> "the query"],
                                      x_field |-> [title |-> "X Field"]],
                      required |-> <<"sql">>,
                      title |-> "plot_queryArguments"]]
D_ensure_schemas ==
    [name |-> "ensure_schemas",
     description |-> "Ensure required OMOP schemas exist",
     inputSchema |-> [title |-> "ensure_schemasArguments"]]
Catalogs == { <<D_run_sql, D_run_all>>, <<D_plot_query, D_ensure_schemas>> }

CatalogNames == {catalog[i].name : i \in DOMAIN catalog}

\* a declaration that always sends an empty required list
TranslateNoRequired(t) ==
    [name |-> t.name,
     description |-> t.description,
     parameters |->
       [type |-> Get(t.inputSchema, "type", "object"),
        properties |->
          [k \in DOMAIN Get(t.inputSchema, "properties", EmptyDict) |->
             [type |-> Get(Get(t.inputSchema, "properties", EmptyDict)[k],
                           "type", "string"),
              description |-> Get(Get(t.inputSchema, "properties", EmptyDict)[k],
                                  "description", "")]],
        required |-> <<>>]]

\* the function declaration built from one tool descriptor
Translate(t) ==
    [name |-> t.name,
     description |-> t.description,
     parameters |->
       [type |-> Get(t.inputSchema, "type", "object"),
        properties |->
          [k \in DOMAIN Get(t.inputSchema, "properties", EmptyDict) |->
             [type |-> Get(Get(t.inputSchema, "properties", EmptyDict)[k],
                           "type", "string"),
              description |-> Get(Get(t.inputSchema, "properties", EmptyDict)[k],
                                  "description", "")]],
        required |-> Get(t.inputSchema, "required", <<>>)]]

\* content parts a response can hold: a part with a function_call (with or
\* without text beside it), a part with text, a part with neither
NoCall == ""
PartAlphabet ==
    { [fc |-> "run_sql", args |-> "dict", text |-> <<>>],
      [fc |-> "drop_database", args |-> "dict", text |-> <<"D">>],
      [fc |-> "run_all", args |-> "bad json", text |-> <<>>],
      [fc |-> NoCall, args |-> "", text |-> <<"A", " ">>],
      [fc |-> NoCall, args |-> "", text |-> <<>>] }
FallbackTexts == { <<>>, <<"F">> }

\* candidates with exactly k parts; content.text matters only without parts
CandsWith(k) ==
    IF k = 0
    THEN {[parts |-> <<>>, text |-> tx] : tx \in FallbackTexts}
    ELSE {[parts |-> ps, text |-> <<>>] : ps \in [1..k -> PartAlphabet]}

RECURSIVE Responses(_, _)
\* responses of at most nc candidates holding at most np parts together
Responses(nc, np) ==
    IF nc = 0
    THEN {<<>>}
    ELSE {<<>>} \cup
         UNION { {<<c>> \o r : c \in CandsWith(k), r \in Responses(nc - 1, np - k)}
                 : k \in 0..np }

TokenCounts == 0..MaxTokens

\* what a call_tool can come to at the gateway
GatewayOutcomes == {"raises", "empty content", "json items", "plain text"}

LowerChar(ch) ==
    CASE ch = "Q" -> "q" [] ch = "U" -> "u" [] ch = "I" -> "i" [] ch = "T" -> "t"
      [] ch = "E" -> "e" [] ch = "X" -> "x" [] OTHER -> ch

\* str.lower()
LowerStr(s) == [i \in DOMAIN s |-> LowerChar(s[i])]

Inputs == { <<"h", "i">>, <<"q", "u", "i", "t">>,
            <<" ", "E", "x", "i", "t", " ">>, <<"q", "u", "i", "t", "e">> }
NoInput == <<"">>

Sentinels == { <<"q", "u", "i", "t">>, <<"e", "x", "i", "t">> }

\* a sentinel test that forgets lower()
IsSentinelCaseSensitive(q) == q \in Sentinels

\* q.lower() in ('quit', 'exit')
IsSentinel(q) == LowerStr(q) \in Sentinels

RECURSIVE Join(_, _)
\* sep.join(parts)
Join(parts, sep) ==
    IF parts = <<>> THEN <<>>
    ELSE IF Len(parts) = 1 THEN parts[1]
    ELSE parts[1] \o sep \o Join(Tail(parts), sep)

\* the text of a tool result: the text fields of the items of a JSON list
\* joined by newlines, or the raw text when it does not decode
ListResult(out) ==
    IF out = "json items"
    THEN Join(<< <<"r", "1">>, <<"r", "2">> >>, <<"\n">>)
    ELSE <<"o", "k">>

\* a loop that also keeps what the tool answered
CollectedAfterToolKept(list_result) == Append(final_parts, list_result)

\* final_parts after a tool result was printed
CollectedAfterTool(list_result) == final_parts

\* an answer that is joined but not trimmed
AnswerTextUntrimmed(parts) == Join(parts, <<"\n">>)

\* text = "\n".join(final_parts).strip()
AnswerText(parts) == Strip(Join(parts, <<"\n">>))

\* a usage record with the two counts exchanged
ReturnedUsageSwapped(um) == [prompt |-> um.completion, completion |-> um.prompt]

\* the usage_metadata of the returned dict
ReturnedUsage(um) == [prompt |-> um.prompt, completion |-> um.completion]

\* total = um['prompt_token_count'] + um['response_token_count']
TotalTokens(um) == um.prompt + um.completion

NoResult == [kind |-> "none", text |-> <<>>, prompt |-> 0, completion |-> 0]
NoCallInFlight == <<>>

\* an exception leaves process_query: the except of chat_loop prints it and
\* the loop goes back to input()
QueryRaises(kind) ==
    /\ result' = [NoResult EXCEPT !.kind = kind]
    /\ transcript' = Append(transcript, <<"Error", kind>>)
    /\ cpc' = "input"
    /\ inflight' = NoCallInFlight

\* q = input("Query: ").strip(); the sentinel test; the call of process_query
ReadQuery ==
    /\ UNCHANGED <<pipeVars, serverVars>>
    /\ cpc = "input"
    /\ \E q \in Inputs :
         /\ lastInput' = q
         /\ cpc' = IF IsSentinel(Strip(q)) THEN "stopped" ELSE "list_tools"
    /\ catalog' = <<>>
    /\ tool_descs' = <<>>
    /\ response' = <<>>
    /\ usage' = [prompt |-> 0, completion |-> 0]
    /\ ci' = 1
    /\ pi' = 1
    /\ final_parts' = <<>>
    /\ inflight' = NoCallInFlight
    /\ callLog' = <<>>
    /\ modelCalls' = 0
    /\ result' = NoResult
    /\ transcript' = <<>>

\* resp_tools = await self.session.list_tools(), then the declarations
ListTools ==
    /\ UNCHANGED <<pipeVars, serverVars>>
    /\ cpc = "list_tools"
    /\ \/ /\ \E cat \in Catalogs :
               /\ catalog' = cat
               /\ tool_descs' = [i \in DOMAIN cat |-> Translate(cat[i])]
          /\ cpc' = "generate"
          /\ UNCHANGED <<result, transcript, inflight>>
       \/ /\ QueryRaises("list_tools raised")
          /\ UNCHANGED <<catalog, tool_descs>>
    /\ UNCHANGED <<lastInput, response, usage, ci, pi, final_parts, callLog,
                   modelCalls>>

\* response = self.anthropic.models.generate_content(...), then the usage
Generate ==
    /\ UNCHANGED <<pipeVars, serverVars>>
    /\ cpc = "generate"
    /\ modelCalls' = modelCalls + 1
    /\ \/ /\ response' \in Responses(MaxCands, MaxParts)
          /\ usage' \in [prompt : TokenCounts, completion : TokenCounts]
          /\ cpc' = "loop"
          /\ UNCHANGED <<result, transcript, inflight>>
       \/ /\ QueryRaises("generate_content raised")
          /\ UNCHANGED <<response, usage>>
    /\ UNCHANGED <<lastInput, tool_descs, catalog, ci, pi, final_parts, callLog>>

AtPart ==
    /\ cpc = "loop"
    /\ ci <= Len(response)
    /\ pi <= Len(response[ci].parts)

CurrentPart == response[ci].parts[pi]

\* the loops move on to the next part, or to the next candidate
Advance ==
    IF pi = Len(response[ci].parts)
    THEN ci' = ci + 1 /\ pi' = 1
    ELSE pi' = pi + 1 /\ UNCHANGED ci

\* a loop that sends the call and goes on to the next part without awaiting
CallPartNoAwait ==
    /\ UNCHANGED <<pipeVars, serverVars>>
    /\ AtPart
    /\ CurrentPart.fc # NoCall
    /\ inflight' = Append(inflight, CurrentPart.fc)
    /\ callLog' = Append(callLog, CurrentPart.fc)
    /\ transcript' = Append(transcript, <<"Calling tool", CurrentPart.fc>>)
    /\ Advance
    /\ UNCHANGED <<cpc, result>>
    /\ UNCHANGED <<lastInput, tool_descs, catalog, response, usage, final_parts,
                   modelCalls>>

\* a part with a function_call: the arguments are decoded and the call is
\* sent to the gateway
CallPart ==
    /\ UNCHANGED <<pipeVars, serverVars>>
    /\ AtPart
    /\ CurrentPart.fc # NoCall
    /\ IF CurrentPart.args = "bad json"
       THEN /\ QueryRaises("json.loads raised")
            /\ UNCHANGED callLog
       ELSE /\ inflight' = Append(inflight, CurrentPart.fc)
            /\ callLog' = Append(callLog, CurrentPart.fc)
            /\ transcript' = Append(transcript, <<"Calling tool", CurrentPart.fc>>)
            /\ cpc' = "await_tool"
            /\ UNCHANGED result
    /\ UNCHANGED <<lastInput, tool_descs, catalog, response, usage, ci, pi,
                   final_parts, modelCalls>>

\* the awaited call_tool returns or raises; its text is decoded best-effort
\* and printed
ToolResult ==
    /\ UNCHANGED <<pipeVars, serverVars>>
    /\ cpc = "await_tool"
    /\ \E out \in GatewayOutcomes :
         IF out \in {"raises", "empty content"}
         THEN /\ QueryRaises(IF out = "raises" THEN "call_tool raised"
                                               ELSE "IndexError")
              /\ UNCHANGED <<ci, pi, final_parts>>
         ELSE /\ transcript' = Append(transcript, <<"Results", ListResult(out)>>)
              /\ final_parts' = CollectedAfterTool(ListResult(out))
              /\ inflight' = Tail(inflight)
              /\ cpc' = "loop"
              /\ Advance
              /\ UNCHANGED result
    /\ UNCHANGED <<lastInput, tool_descs, catalog, response, usage, callLog,
                   modelCalls>>

\* a part without a function_call: its text, when not empty, is collected
TextPart ==
    /\ UNCHANGED <<pipeVars, serverVars>>
    /\ AtPart
    /\ CurrentPart.fc = NoCall
    /\ final_parts' = IF CurrentPart.text # <<>>
                      THEN Append(final_parts, CurrentPart.text)
                      ELSE final_parts
    /\ Advance
    /\ UNCHANGED <<cpc, lastInput, tool_descs, catalog, response, usage, inflight,
                   callLog, modelCalls, result, transcript>>

\* a candidate without parts: the text of its content, when not empty
FallbackCandidate ==
    /\ UNCHANGED <<pipeVars, serverVars>>
    /\ cpc = "loop"
    /\ ci <= Len(response)
    /\ response[ci].parts = <<>>
    /\ final_parts' = IF response[ci].text # <<>>
                      THEN Append(final_parts, response[ci].text)
                      ELSE final_parts
    /\ ci' = ci + 1
    /\ UNCHANGED <<cpc, lastInput, tool_descs, catalog, response, usage, pi,
                   inflight, callLog, modelCalls, result, transcript>>

\* process_query returns; chat_loop prints the text and the usage line
ReturnAnswer ==
    /\ UNCHANGED <<pipeVars, serverVars>>
    /\ cpc = "loop"
    /\ ci > Len(response)
    /\ LET text == AnswerText(final_parts)
           um == ReturnedUsage(usage)
       IN
       /\ result' = [kind |-> "returned", text |-> text,
                     prompt |-> um.prompt, completion |-> um.completion]
       /\ transcript' = transcript \o
              << <<"Answer", text>>,
                 <<"Tokens used", TotalTokens(um), um.prompt, um.completion>> >>
    /\ cpc' = "input"
    /\ UNCHANGED <<lastInput, tool_descs, catalog, response, usage, ci, pi,
                   final_parts, inflight, callLog, modelCalls>>

ClientInit ==
    /\ cpc = "input"
    /\ lastInput = NoInput
    /\ tool_descs = <<>>
    /\ catalog = <<>>
    /\ response = <<>>
    /\ usage = [prompt |-> 0, completion |-> 0]
    /\ ci = 1
    /\ pi = 1
    /\ final_parts = <<>>
    /\ inflight = NoCallInFlight
    /\ callLog = <<>>
    /\ modelCalls = 0
    /\ result = NoResult
    /\ transcript = <<>>

\* ------------------------------------------------- initial pipeline state
PipeInit(entries) ==
    /\ schemas \in {E \in SUBSET SchemaUniverse : "public" \in E}
    /\ txCreated = [p \in Procs |-> {}]
    /\ txStmts = [p \in Procs |-> <<>>]
    /\ dbLog = <<>>
    /\ files \in [SqlPaths -> Scripts \cup {Missing}]
    /\ entry = entries
    /\ pc = [p \in Procs |-> IF entries[p] = "none" THEN "idle" ELSE "ready"]
    /\ idx = [p \in Procs |-> 1]
    /\ stage = [p \in Procs |-> 0]
    /\ status = [p \in Procs |-> [s \in 1..NumStages |-> "Pending"]]
    /\ skipped = [p \in Procs |-> FALSE]
    /\ run = [p \in Procs |-> 1]
    /\ started = [p \in Procs |-> <<>>]
    /\ issued = [p \in Procs |-> <<>>]
    /\ benignOnly = [p \in Procs |-> TRUE]
    /\ createLog = [p \in Procs |-> {}]
    /\ preSchemas = [p \in Procs |-> {}]
    /\ overlap = [p \in Procs |-> FALSE]
    /\ dupLost = [p \in Procs |-> FALSE]
    /\ lastFail = [p \in Procs |-> NoError]

\* ---------------------------------------------------------- specifications
\* every process runs ensure_schemas_exist against the one database
InitSchemas ==
    /\ PipeInit([p \in Procs |-> "ensure_schemas_exist"])
    /\ files = [f \in SqlPaths |-> Missing]
    /\ ServerInit
    /\ ClientInit

NextSchemas ==
    \E p \in Procs :
        \/ Invoke(p)
        \/ EsConnect(p)
        \/ EsSelect(p)
        \/ EsCreate(p)
        \/ EsCommit(p)

SpecSchemas == InitSchemas /\ [][NextSchemas]_vars

\* one process runs run_all, up to MaxRuns times in a row
InitRunAll ==
    /\ PipeInit([p \in Procs |-> IF p = 1 THEN "run_all" ELSE "none"])
    /\ ServerInit
    /\ ClientInit

NextRunAll ==
    \E p \in Procs :
        \/ Invoke(p)
        \/ RunAllStart(p)
        \/ RunAllReturn(p)
        \/ Rerun(p)
        \/ EsConnect(p)
        \/ EsSelect(p)
        \/ EsCreate(p)
        \/ EsCommit(p)
        \/ EtlOp(p)
        \/ SqlOpen(p)
        \/ SqlConnect(p)
        \/ SqlExec(p)
        \/ SqlCommit(p)
        \/ AchOp(p)
        \/ DqdExec(p)
        \/ DqdView(p)

SpecRunAll == InitRunAll /\ [][NextRunAll]_vars

\* no pipeline process of its own: the database as the server or client sees it
PipeIdle ==
    /\ PipeInit([p \in Procs |-> "none"])
    /\ schemas = {"public"}
    /\ files = [f \in SqlPaths |-> Missing]

\* the tool server receiving up to MaxCalls tool calls
InitServer == PipeIdle /\ ServerInit /\ ClientInit

NextServer ==
    \E c \in Calls :
        \/ ToolCall(c)
        \/ WorkEffect(c)
        \/ WorkerFinish(c)
        \/ InlineFinish(c)
        \/ WorkerCrash(c)
        \/ ServerCrash(c)

SpecServer == InitServer /\ [][NextServer]_vars

\* the interactive client against a gateway and a model
InitClient == PipeIdle /\ ServerInit /\ ClientInit

NextClient ==
    \/ ReadQuery
    \/ ListTools
    \/ Generate
    \/ CallPart
    \/ ToolResult
    \/ TextPart
    \/ FallbackCandidate
    \/ ReturnAnswer

SpecClient == InitClient /\ [][NextClient]_vars

\* the server handling ensure_schemas calls with its own pipeline object
\* (process 1) while the other processes run ensure_schemas_exist too
InitEnsureTool ==
    /\ PipeInit([p \in Procs |-> "ensure_schemas_exist"])
    /\ files = [f \in SqlPaths |-> Missing]
    /\ ServerInit
    /\ ClientInit

NextEnsureTool ==
    \/ \E c \in Calls :
          \/ EnsureToolCall(c)
          \/ EnsureToolReturn(c)
    \/ \E p \in Procs \ {1} : Invoke(p)
    \/ \E p \in Procs :
          \/ EsConnect(p)
          \/ EsSelect(p)
          \/ EsCreate(p)
          \/ EsCommit(p)

SpecEnsureTool == InitEnsureTool /\ [][NextEnsureTool]_vars

\* ------------------------------------------------------------------ claims
RunOver(p) == pc[p] \in {"done", "raised"}

\* C1 (as claimed): in every finished run_all, a stage that ended Failed did
\* not keep any later stage from being started.
C1_SequenceIsolation ==
    \A p \in Procs : \A s \in 1..NumStages :
        (entry[p] = "run_all" /\ RunOver(p) /\ status[p][s] = "Failed")
            => \A t \in (s + 1)..NumStages : status[p][t] # "Pending"

\* C4: the stages of a run_all are started in the order 1, 2, .., 6 of the
\* fixed sequence, and a stage is started only after every earlier stage has
\* returned (reached a terminal status); a stage not started is Pending.
C4_StageOrder ==
    \A p \in Procs :
        entry[p] = "run_all" =>
            /\ started[p] = [i \in 1..Len(started[p]) |-> i]
            /\ \A i \in 1..(Len(started[p]) - 1) : status[p][i] \in Terminal
            /\ \A s \in 1..NumStages :
                   (\A i \in DOMAIN started[p] : started[p][i] # s)
                       => status[p][s] = "Pending"

\* a run_all that started all six stages and returned
C4_Witness ==
    \E p \in Procs :
        /\ entry[p] = "run_all" /\ pc[p] = "done"
        /\ started[p] = <<1, 2, 3, 4, 5, 6>>

\* C6 (as claimed): in a second run_all in a row whose failures all carry an
\* "already exists"-class message, no stage ends Failed.
C6_RerunNeverFailed ==
    \A p \in Procs :
        (entry[p] = "run_all" /\ run[p] = 2 /\ benignOnly[p])
            => \A s \in 1..NumStages : status[p][s] # "Failed"

RequiredSet == Range(required_schemas)

\* C7: an uncontended ensure_schemas_exist run that commits has issued
\* CREATE SCHEMA for exactly the required schemas that were absent when it
\* began, for none that existed, and afterwards every required schema and
\* every schema that existed before is there.
C7_CreatesExactlyMissing ==
    \A p \in Procs :
        (entry[p] = "ensure_schemas_exist" /\ pc[p] = "done"
            /\ status[p][1] = "Completed" /\ ~overlap[p])
        => /\ createLog[p] = RequiredSet \ preSchemas[p]
           /\ createLog[p] \cap preSchemas[p] = {}
           /\ RequiredSet \subseteq schemas
           /\ preSchemas[p] \subseteq schemas

\* the scenario of the specification: only the first required schema exists,
\* and the run creates the second and the third
C7_Witness ==
    \E p \in Procs :
        /\ entry[p] = "ensure_schemas_exist" /\ pc[p] = "done"
        /\ status[p][1] = "Completed" /\ ~overlap[p]
        /\ preSchemas[p] = {"public", "cdm54"}
        /\ createLog[p] = {"synthea", "results"}
        /\ issued[p] = << <<"CONNECT">>, <<"SELECT", "cdm54">>,
                          <<"SELECT", "synthea">>, <<"CREATE", "synthea">>,
                          <<"SELECT", "results">>, <<"CREATE", "results">>,
                          <<"COMMIT">> >>

\* C8 (as claimed): a run whose CREATE SCHEMA lost a duplicate-creation race
\* does not end in its error path.
C8_DuplicateIsBenign ==
    \A p \in Procs : dupLost[p] => status[p][1] # "Failed"

\* C2 (as claimed): for every background-style tool the acknowledgment is
\* returned before the work's side effect is observable and without waiting
\* for the work to finish.
C2_AckBeforeEffect ==
    \A c \in Calls :
        (tool[c] \in BackgroundTools /\ work[c] \in {"effect", "finished"})
            => reply[c] # NoReply

\* C9 (as claimed): the work of every background-style tool runs in a
\* process other than the server, and a crash of that work leaves the server
\* running.
C9_WorkerIsolation ==
    \A c \in Calls :
        tool[c] \in BackgroundTools =>
            /\ host[c] # "server"
            /\ work[c] = "crashed" => serverAlive

\* C10: whenever a background-style tool has answered a call for which
\* starting the Process did not itself raise, the text is the tool's success
\* acknowledgment, in every state before and after the work has ended and
\* whatever its outcome (success, skipped conflict, fatal failure).
C10_AlwaysAcknowledged ==
    \A c \in Calls :
        (tool[c] \in BackgroundTools /\ reply[c] # NoReply
            /\ spawned[c] # StartFailed)
        => reply[c] = AckText(tool[c], arg[c])

\* a run_sql whose statements failed and a run_etl whose script failed, both
\* answered with the success acknowledgment
C10_Witness ==
    \E c, d \in Calls :
        /\ tool[c] = "run_sql" /\ outcome[c] = "failed"
        /\ reply[c] = AckText("run_sql", arg[c])
        /\ tool[d] = "run_etl" /\ outcome[d] = "failed"
        /\ reply[d] = AckText("run_etl", "")

\* C3 (as claimed): no exception raised while decoding the arguments of a
\* tool call or while invoking it leaves process_query.
C3_ToolErrorsStayInline ==
    result.kind \notin {"json.loads raised", "call_tool raised"}

\* C5 (as claimed): every call_tool issued names a tool of the catalog
\* fetched for the query.
C5_DispatchedToolsInCatalog ==
    \A i \in DOMAIN callLog : callLog[i] \in CatalogNames

\* ------------------------------------------------ claims on process_query
RECURSIVE Flatten(_)
\* the parts of a response in emission order
Flatten(resp) ==
    IF resp = <<>> THEN <<>> ELSE resp[1].parts \o Flatten(Tail(resp))

\* the parts in front of the position of the loops
PartsBefore == Len(Flatten(SubSeq(response, 1, ci - 1))) + (pi - 1)

\* the names of the function calls among the first k parts, in order
CallNames(k) ==
    LET calls == SelectSeq(SubSeq(Flatten(response), 1, k),
                           LAMBDA part : part.fc # NoCall)
    IN  [i \in DOMAIN calls |-> calls[i].fc]

Printed(kind) == SelectSeq(transcript, LAMBDA line : line[1] = kind)

\* C11: within one process_query the tool calls are strictly sequential: at
\* most one call_tool is in flight, and one is in flight only while the loop
\* waits on the part that emitted it; the calls issued are the function
\* calls of the parts reached so far, in emission order; every printed call
\* is followed by its result (or by the error that ends the turn) before
\* anything else is printed, and every result follows its call.
C11_CallsSequential ==
    /\ Len(inflight) <= 1
    /\ (cpc = "await_tool") <=> (inflight # NoCallInFlight)
    /\ cpc = "await_tool" =>
          /\ inflight = <<CurrentPart.fc>>
          /\ callLog = CallNames(PartsBefore + 1)
          /\ transcript[Len(transcript)] = <<"Calling tool", CurrentPart.fc>>
    /\ cpc = "loop" =>
          /\ callLog = CallNames(PartsBefore)
          /\ Len(Printed("Results")) = Len(callLog)
    /\ [i \in DOMAIN Printed("Calling tool") |-> Printed("Calling tool")[i][2]]
          = callLog
    /\ \A i \in DOMAIN transcript :
          /\ transcript[i][1] = "Calling tool" =>
                IF i = Len(transcript)
                THEN cpc = "await_tool"
                ELSE transcript[i + 1][1] \in {"Results", "Error"}
          /\ transcript[i][1] = "Results" =>
                i > 1 /\ transcript[i - 1][1] = "Calling tool"

\* two calls of one turn, each reported before the loop went on
C11_Witness ==
    /\ cpc = "loop"
    /\ callLog = <<"run_sql", "drop_database">>
    /\ Len(transcript) = 4
    /\ transcript[2][1] = "Results"
    /\ transcript[4][1] = "Results"

\* the texts the model put into a response
ModelTexts ==
    {response[c].text : c \in DOMAIN response}
        \cup {Flatten(response)[i].text : i \in DOMAIN Flatten(response)}

\* C12: a process_query makes one model request and never a second one,
\* however many tool calls the response holds; what the tools answered is
\* only printed: every collected part is a text of the model's response and
\* no tool result occurs in the returned answer.
C12_OneModelRequest ==
    /\ modelCalls <= 1
    /\ (cpc \in {"loop", "await_tool"} \/ result.kind = "returned")
          => modelCalls = 1
    /\ \A i \in DOMAIN final_parts : final_parts[i] \in ModelTexts
    /\ result.kind = "returned" =>
          \A i \in DOMAIN transcript :
              transcript[i][1] = "Results"
                  => ~Contains(result.text, transcript[i][2])

\* a turn with two tool calls and a text returned its answer
C12_Witness ==
    /\ result.kind = "returned"
    /\ Len(callLog) = 2
    /\ Len(Printed("Results")) = 2
    /\ result.text = <<"F">>
    /\ modelCalls = 1

\* C13: the usage of a returned answer carries the prompt count and the
\* response count of the model's usage record unchanged, whatever the
\* response held, and the total printed for the turn is their sum.
C13_UsageReported ==
    result.kind = "returned" =>
        /\ result.prompt = usage.prompt
        /\ result.completion = usage.completion
        /\ transcript[Len(transcript)] =
              <<"Tokens used", usage.prompt + usage.completion,
                usage.prompt, usage.completion>>

\* a turn with a tool call and differing counts returned
C13_Witness ==
    /\ result.kind = "returned"
    /\ usage = [prompt |-> 0, completion |-> 1]
    /\ Len(callLog) >= 1
    /\ transcript[Len(transcript)] = <<"Tokens used", 1, 0, 1>>

\* C14: every descriptor of the catalog has its declaration, with the same
\* name and description, the same parameter names and the same required
\* list (empty when the descriptor has none); a parameter keeps its type and
\* gets the type string when its descriptor names none.
C14_Translation ==
    /\ Len(tool_descs) = Len(catalog)
    /\ \A i \in DOMAIN catalog :
          LET t == catalog[i]
              d == tool_descs[i]
              props == IF "properties" \in DOMAIN t.inputSchema
                       THEN t.inputSchema.properties ELSE EmptyDict
          IN  /\ d.name = t.name
              /\ d.description = t.description
              /\ DOMAIN d.parameters.properties = DOMAIN props
              /\ d.parameters.required =
                    (IF "required" \in DOMAIN t.inputSchema
                     THEN t.inputSchema.required ELSE <<>>)
              /\ \A k \in DOMAIN props :
                    d.parameters.properties[k].type =
                        (IF "type" \in DOMAIN props[k]
                         THEN props[k].type ELSE "string")

\* a catalog whose descriptors omit a parameter type, the properties and
\* the required list was translated
C14_Witness ==
    /\ cpc = "generate"
    /\ catalog = <<D_plot_query, D_ensure_schemas>>
    /\ tool_descs[1].parameters.properties.x_field.type = "string"
    /\ tool_descs[1].parameters.required = <<"sql">>
    /\ tool_descs[2].parameters.properties = EmptyDict
    /\ tool_descs[2].parameters.required = <<>>

\* the lines that are quit or exit once trimmed and lowered
QuitInputs == { <<"q", "u", "i", "t">>, <<" ", "E", "x", "i", "t", " ">> }

RECURSIVE ExpectedTexts(_)
\* the non-empty plain texts of a response: of each candidate the texts of
\* its parts without a function call, or the text of its content when it
\* has no parts
ExpectedTexts(resp) ==
    IF resp = <<>> THEN <<>>
    ELSE LET cand == resp[1]
             plain == SelectSeq(cand.parts,
                                LAMBDA part : part.fc = NoCall /\ part.text # <<>>)
             own == IF cand.parts = <<>>
                    THEN (IF cand.text # <<>> THEN <<cand.text>> ELSE <<>>)
                    ELSE [i \in DOMAIN plain |-> plain[i].text]
         IN  own \o ExpectedTexts(Tail(resp))

\* C16: the returned answer is the non-empty plain texts of all candidates
\* in emission order, joined by newlines and trimmed; a candidate without
\* parts gives the text of its content; without any text it is empty.
C16_AnswerAssembly ==
    result.kind = "returned" =>
        /\ result.text = Strip(Join(ExpectedTexts(response), <<"\n">>))
        /\ ExpectedTexts(response) = <<>> => result.text = <<>>

\* a text part and the content text of a candidate without parts, joined
C16_Witness ==
    /\ result.kind = "returned"
    /\ result.text = <<"A", " ", "\n", "F">>

\* ------------------------------------------------ claims on the ETL stage
\* C17: in the ETL stage a failure of any of the seven operations is
\* skipped (the stage is not failed by it) exactly when its message matches
\* the allow-list "already exists" / "duplicate key"; any other failure
\* fails the stage.  Stated on the last failure of the stage.
C17_AllowListOnEveryOp ==
    \A p \in Procs :
        (stage[p] = 2 /\ lastFail[p] # NoError)
            => (Grepl(AllowList, lastFail[p]) <=> status[p][2] # "Failed")

\* ---------------------------------------------- claims on the stage status
\* sequence s grew into t by one entry that s did not hold, or did not grow
FreshAppend(s, t) ==
    Len(t) = Len(s) + 1 => t[Len(t)] \notin Range(s)

StatusStep(old, new) ==
    \/ new = old
    \/ old = "Pending" /\ new = "Running"
    \/ old = "Running" /\ new \in Terminal

\* C18: within one run_all a stage's status only goes Pending -> Running ->
\* Completed / CompletedWithSkips / Failed and a terminal status never
\* changes; a stage that is started was Pending and was not started before;
\* an operation that is issued was not issued before in its stage, so a
\* failed one is never retried.
C18_StageLifecycle ==
    [][\A p \in Procs :
          run'[p] = run[p] =>
             /\ \A s \in 1..NumStages : StatusStep(status[p][s], status'[p][s])
             /\ FreshAppend(started[p], started'[p])
             /\ FreshAppend(issued[p], issued'[p])
             /\ started'[p] # started[p] =>
                   /\ started'[p] = Append(started[p], stage'[p])
                   /\ status[p][stage'[p]] = "Pending"]_vars

\* a run_all ended after one stage was skipped through, one failed, and the
\* stages behind them ran to their end
C18_Witness ==
    \E p \in Procs :
        /\ entry[p] = "run_all"
        /\ pc[p] = "done"
        /\ status[p][2] = "CompletedWithSkips"
        /\ status[p][3] = "Failed"
        /\ status[p][4] = "Completed"
        /\ status[p][6] \in Terminal
        /\ started[p] = <<1, 2, 3, 4, 5, 6>>

\* ------------------------------------------------- claims on run_sql_file
\* the non-empty statements of the scripts, in file order, as executed
ExpectedStmts(script) ==
    CASE script = <<"a", ";", "\n", "b", ";">> -> << <<"a", ";">>, <<"b", ";">> >>
      [] script = <<" ", "a", ";", " ", ";", "b">> -> << <<"a", ";">>, <<"b", ";">> >>
      [] script = <<"\n">> -> <<>>
      [] OTHER -> <<>>

\* what a complete run_sql_file sends on its connection
ExpectedIssued(script) ==
    <<<<"CONNECT">>>>
        \o [i \in DOMAIN ExpectedStmts(script) |-> <<"SQL">> \o ExpectedStmts(script)[i]]
        \o <<<<"COMMIT">>>>

IsPrefix(s, t) == Len(s) <= Len(t) /\ s = SubSeq(t, 1, Len(s))

\* C19: run_sql_file is all or nothing.  What it sends is a prefix of: one
\* connect, the non-empty statements of the file in file order, one commit.
\* It completes only with all of that sent and the whole script committed;
\* when the open, the connect or a statement fails it returns normally with
\* no commit sent, nothing after the failed step sent, and its transaction
\* gone; nothing but whole scripts is ever committed.
C19_SqlFileAllOrNothing ==
    /\ \A i \in DOMAIN dbLog : dbLog[i].stmts = ExpectedStmts(files[dbLog[i].path])
    /\ \A p \in Procs :
          stage[p] \in {3, 5} =>
             LET script == files[SqlPath(p)]
                 st == status[p][stage[p]]
             IN  /\ st \in {"Running", "Completed", "Failed"}
                 /\ IsPrefix(issued[p], ExpectedIssued(script))
                 /\ st = "Completed" <=> issued[p] = ExpectedIssued(script)
                 /\ st = "Completed" =>
                       /\ script # Missing
                       /\ txStmts[p] = <<>>
                       /\ \E i \in DOMAIN dbLog :
                             dbLog[i] = [path |-> SqlPath(p),
                                         stmts |-> ExpectedStmts(script)]
                 /\ st = "Failed" =>
                       /\ pc[p] = "next"
                       /\ txStmts[p] = <<>>
                       /\ <<"COMMIT">> \notin Range(issued[p])
                 /\ st = "Running" =>
                       IF issued[p] = <<>>
                       THEN txStmts[p] = <<>>
                       ELSE [i \in DOMAIN txStmts[p] |-> <<"SQL">> \o txStmts[p][i]]
                                = Tail(issued[p])

\* the second statement of a script failed: nothing was committed and the
\* function returned
C19_Witness ==
    \E p \in Procs :
        /\ stage[p] = 3
        /\ status[p][3] = "Failed"
        /\ pc[p] = "next"
        /\ issued[p] = << <<"CONNECT">>, <<"SQL", "a", ";">>, <<"SQL", "b", ";">> >>
        /\ dbLog = <<>>

\* ------------------------------------------- claims on the ensure_schemas tool
\* C20: ensure_schemas_exist never leaves by an exception, so every reply
\* of the ensure_schemas tool is "Schemas ensured successfully.", whatever
\* became of the provisioning; a run that failed has sent no commit and its
\* transaction holds nothing, and the committed schemas change only by the
\* commit of a run that completed.
C20_EnsureAlwaysSucceeds ==
    [][/\ \A c \in Calls :
             (tool'[c] = "ensure_schemas" /\ reply'[c] # NoReply)
                 => reply'[c] = <<"Schemas ensured successfully.">>
       /\ \A p \in Procs :
             /\ pc'[p] # "raised"
             /\ status'[p][1] = "Failed" =>
                   /\ txCreated'[p] = {}
                   /\ <<"COMMIT">> \notin Range(issued'[p])
       /\ schemas' # schemas =>
             \E p \in Procs :
                 /\ pc[p] = "es_commit"
                 /\ status'[p][1] = "Completed"
                 /\ schemas' = schemas \cup txCreated[p]]_vars

\* the tool answered for a run that had created a schema and then failed:
\* the schema is not there
C20_Witness ==
    \E c \in Calls :
        /\ tool[c] = "ensure_schemas"
        /\ reply[c] = <<"Schemas ensured successfully.">>
        /\ outcome[c] = "failed"
        /\ busy = 0
        /\ \A d \in Calls : d > c => tool[d] = "none"
        /\ status[1][1] = "Failed"
        /\ <<"CREATE", "cdm54">> \in Range(issued[1])
        /\ "cdm54" \notin schemas

\* ------------------------------------ claims on concurrent provisioning
\* the schemas that existed before any run began: schemas are never dropped,
\* so the run that began first saw exactly these and the others saw more
InitialSchemas ==
    {s \in SchemaUniverse : \A p \in Procs : s \in preSchemas[p]}

\* C21: when all concurrent ensure_schemas_exist runs have finished and
\* each run that failed did so by losing a duplicate creation to another
\* run, every required schema exists, at least one run has committed, every
\* schema that existed at the beginning is still there and no run has issued
\* a CREATE SCHEMA for it.
C21_ConcurrentRunsConverge ==
    ((\A p \in Procs : entry[p] = "ensure_schemas_exist" /\ pc[p] = "done")
        /\ (\A p \in Procs : status[p][1] = "Failed" => dupLost[p]))
    => /\ RequiredSet \subseteq schemas
       /\ \E p \in Procs :
             status[p][1] = "Completed" /\ <<"COMMIT">> \in Range(issued[p])
       /\ InitialSchemas \subseteq schemas
       /\ \A p \in Procs :
             \A s \in InitialSchemas : <<"CREATE", s>> \notin Range(issued[p])

\* two runs that began on a database without the required schemas: one
\* lost the duplicate creation of a schema and failed, the other committed
C21_Witness ==
    /\ \A p \in Procs : entry[p] = "ensure_schemas_exist" /\ pc[p] = "done"
    /\ \A p \in Procs : status[p][1] = "Failed" => dupLost[p]
    /\ InitialSchemas \cap RequiredSet = {}
    /\ \E p, q \in Procs :
          /\ status[p][1] = "Failed" /\ dupLost[p]
          /\ status[q][1] = "Completed"
          /\ createLog[q] = RequiredSet

====
